---- MODULE Spec2Model ----
(***************************************************************************)
(* FitCRM (src/app.js): the client repository over one localStorage slot,  *)
(* the form validator, the exercise suggestion service, the page load,     *)
(* the stored JSON text and two tabs on the same slot.                     *)
(*                                                                         *)
(* JavaScript strings that the code inspects character by character        *)
(* (fullName, the search query, the raw form values) are sequences of      *)
(* one-character strings.  A JavaScript object is a function from its own  *)
(* keys to their values; {} is the empty function <<>>.                    *)
(***************************************************************************)
EXTENDS Integers, Sequences, FiniteSets, TLC

VARIABLES
    storage,    \* the localStorage slot STORAGE_KEY
    now,        \* the last reading of the clock
    ret,        \* what the last repository call handed back
    form,       \* the submitted form: field name -> raw value
    result,     \* what validateClientForm returned for it
    sPc,        \* where the call of fetchSuggestedExercises stands
    sGoal,      \* its goal argument
    sLimit,     \* its limit argument
    sPool,      \* allExercises, the normalised pool
    sOut,       \* the object it returned
    saved,      \* the collection handed to saveClients, as JavaScript values
    item,       \* the text setItem stored for it
    loaded,     \* what getClients made of that text
    tPc,        \* per tab: "idle", or "read" between its getClients and its saveClients
    tOp,        \* per tab: the operation it is in and its arguments
    tCopy,      \* per tab: `clients`, the array its getClients returned
    tMissed     \* per tab: between its read and its save, the records other tabs
                \* saved since it read; after its save, those of them it removed

varsRepo == <<storage, now, ret>>
varsForm == <<form, result>>
varsSuggest == <<sPc, sGoal, sLimit, sPool, sOut>>
varsText == <<saved, item, loaded>>
varsTabs == <<tPc, tOp, tCopy, tMissed>>
varsMore == <<varsText, varsTabs>>
vars == <<storage, now, ret, form, result, sPc, sGoal, sLimit, sPool, sOut,
          saved, item, loaded, tPc, tOp, tCopy, tMissed>>

(***************************************************************************)
(* Bounds of the model.                                                    *)
(***************************************************************************)
\* Date.now() takes the values 0..MaxTime (milliseconds).
MaxTime == 0
\* addClient is not taken once the collection holds MaxClients records.
MaxClients == 2
\* addExerciseEntry is not taken once the client's history holds MaxHist entries.
MaxHist == 2
\* Search queries have at most MaxQuery characters.
MaxQuery == 2

Times == 0..MaxTime

\* The outcomes of Math.random().toString(36).substr(2, 9).
Suffixes == {"a", "b"}

(***************************************************************************)
(* Strings.                                                                *)
(***************************************************************************)
\* The characters String.prototype.trim removes and \s matches.
Whitespace == {" ", "\t", "\n"}

Uppers == <<"A", "B", "C", "D", "E", "F", "G", "H", "I", "J", "K", "L", "M",
            "N", "O", "P", "Q", "R", "S", "T", "U", "V", "W", "X", "Y", "Z">>
Lowers == <<"a", "b", "c", "d", "e", "f", "g", "h", "i", "j", "k", "l", "m",
            "n", "o", "p", "q", "r", "s", "t", "u", "v", "w", "x", "y", "z">>

\* String.prototype.toLowerCase, one character.
lowerChar(c) ==
    IF \E i \in 1..Len(Uppers) : Uppers[i] = c
    THEN Lowers[CHOOSE i \in 1..Len(Uppers) : Uppers[i] = c]
    ELSE c

\* String.prototype.toLowerCase.
toLowerCase(s) == [i \in 1..Len(s) |-> lowerChar(s[i])]

\* String.prototype.trim: drops the leading and the trailing whitespace.
trim(s) ==
    LET keep == {i \in 1..Len(s) : s[i] \notin Whitespace}
    IN  IF keep = {} THEN <<>>
        ELSE LET lo == CHOOSE i \in keep : \A j \in keep : i <= j
                 hi == CHOOSE i \in keep : \A j \in keep : j <= i
             IN  SubSeq(s, lo, hi)

\* String.prototype.includes: sub occurs in s as a contiguous substring.
includes(s, sub) ==
    \E k \in 0..(Len(s) - Len(sub)) : SubSeq(s, k + 1, k + Len(sub)) = sub

\* The elements of arr at the positions of K from position i on, in the order of arr.
RECURSIVE keepFrom(_, _, _)
keepFrom(arr, K, i) ==
    IF i > Len(arr) THEN <<>>
    ELSE (IF i \in K THEN <<arr[i]>> ELSE <<>>) \o keepFrom(arr, K, i + 1)

\* Array.prototype.filter: K is the set of positions the callback accepts.
filter(arr, K) == keepFrom(arr, K, 1)

\* Object spread {...a, ...b}: the keys of both, b's value where both have the key.
Spread(a, b) ==
    [k \in (DOMAIN a) \cup (DOMAIN b) |-> IF k \in DOMAIN b THEN b[k] ELSE a[k]]

(***************************************************************************)
(* The storage slot localStorage[STORAGE_KEY].                             *)
(*   kind "null"      no item: getItem returns null                        *)
(*   kind "empty"     the item is the empty string                         *)
(*   kind "malformed" the item is a non-empty text that is not JSON        *)
(*   kind "json"      the item is the JSON text of the array val           *)
(***************************************************************************)
NoItem == [kind |-> "null", val |-> <<>>]
EmptyText == [kind |-> "empty", val |-> <<>>]
MalformedText == [kind |-> "malformed", val |-> <<>>]

\* JSON.stringify of an array of client objects whose values are strings,
\* finite numbers, arrays and plain objects.
JSONstringify(clients) == [kind |-> "json", val |-> clients]

\* JSON.parse: the value of a JSON text; a SyntaxError on any other text.
JSONparse(data) ==
    IF data.kind = "json" THEN [threw |-> FALSE, val |-> data.val]
    ELSE [threw |-> TRUE, val |-> <<>>]

\* getClients: `data ? JSON.parse(data) : []` (null and "" are falsy).
getClients(st) ==
    IF st.kind \in {"null", "empty"} THEN [threw |-> FALSE, val |-> <<>>]
    ELSE JSONparse(st)

\* saveClients: the slot after localStorage.setItem(STORAGE_KEY, JSON.stringify(clients)).
saveClients(clients) == JSONstringify(clients)

\* generateId: 'client_' + Date.now() + '_' + <random suffix>.
generateId(t, r) == <<t, r>>

Ids == {generateId(t, r) : t \in Times, r \in Suffixes}

\* Array.prototype.findIndex(c => c.id === id): the first match, 0 for -1.
findIndex(clients, id) ==
    IF \E i \in 1..Len(clients) : clients[i].id = id
    THEN CHOOSE i \in 1..Len(clients) :
            /\ clients[i].id = id
            /\ \A j \in 1..(i - 1) : clients[j].id # id
    ELSE 0

(***************************************************************************)
(* What an operation handed back to its caller: the operation, whether it  *)
(* threw, the client(s) it returned (<<>> for null, one record for a       *)
(* client, the array for a list) and the boolean of deleteClient.          *)
(***************************************************************************)
Returned(op, val) == [op |-> op, threw |-> FALSE, val |-> val, ok |-> FALSE]
ReturnedBool(op, b) == [op |-> op, threw |-> FALSE, val |-> <<>>, ok |-> b]
Threw(op) == [op |-> op, threw |-> TRUE, val |-> <<>>, ok |-> FALSE]

(***************************************************************************)
(* Arguments of the repository operations.                                 *)
(***************************************************************************)
Names == {<<"A", "l">>, <<"L", "a">>}

\* Field mappings of a validated form: the form's fields only.
FormMaps == {[fullName |-> n] : n \in Names}

\* An id a caller may name in a field mapping.
SomeId == generateId(0, "a")

\* A timestamp a caller may name in a field mapping: one before every clock reading.
PastTime == 0 - 1

\* Field mappings passed to addClient: a form's, or one that also names an id.
AddMaps == FormMaps \cup {[fullName |-> n, id |-> SomeId] : n \in Names}

UpdKeys == {"fullName", "id", "exerciseHistory", "updatedAt"}

UpdValues(k) ==
    CASE k = "fullName" -> Names
      [] k = "id" -> {SomeId}
      [] k = "exerciseHistory" -> {<<>>}
      [] k = "updatedAt" -> {PastTime}

\* The ways of supplying key k: not at all, or with one of its values.
Supplied(k) == {<<>>} \cup {[x \in {k} |-> v] : v \in UpdValues(k)}

\* Field mappings passed to updateClient: fullName or not, with at most one of
\* the other keys ({} is among them).
UpdMaps ==
    {Spread(a, b) : a \in Supplied("fullName"),
                    b \in Supplied("id") \cup Supplied("exerciseHistory")
                            \cup Supplied("updatedAt")}

EntryMaps == {[title |-> "HIIT"]}

QueryChars == {"a", "L", " "}

Queries == UNION {[1..n -> QueryChars] : n \in 0..MaxQuery}

(***************************************************************************)
(* The repository operations.  Every clock reading of an operation is at   *)
(* or after `now`, and the clock stays where the operation last read it.   *)
(***************************************************************************)
\* addClient with unshift in place of push: the new client goes first.
addClientUnshift(clientData, t1, r, t2) ==
    LET got == getClients(storage)
        newClient == Spread(Spread([id |-> generateId(t1, r)], clientData),
                            [createdAt |-> t2, exerciseHistory |-> <<>>])
    IN  IF got.threw
        THEN /\ ret' = Threw("add")
             /\ UNCHANGED <<storage, now>>
        ELSE /\ Len(got.val) < MaxClients
             /\ now <= t1 /\ t1 <= t2
             /\ storage' = saveClients(<<newClient>> \o got.val)
             /\ now' = t2
             /\ ret' = Returned("add", <<newClient>>)

\* addClient(clientData); t1 is Date.now() in generateId, t2 the clock of createdAt.
addClient(clientData, t1, r, t2) ==
    LET got == getClients(storage)
        newClient == Spread(Spread([id |-> generateId(t1, r)], clientData),
                            [createdAt |-> t2, exerciseHistory |-> <<>>])
    IN  IF got.threw
        THEN /\ ret' = Threw("add")
             /\ UNCHANGED <<storage, now>>
        ELSE /\ Len(got.val) < MaxClients
             /\ now <= t1 /\ t1 <= t2
             /\ storage' = saveClients(Append(got.val, newClient))
             /\ now' = t2
             /\ ret' = Returned("add", <<newClient>>)

\* updateClient with the spreads the other way round: the stored fields win.
updateClientOldWins(st, id, updatedData, t) ==
    LET got == getClients(st)
        index == findIndex(got.val, id)
        merged == Spread(Spread(updatedData, got.val[index]), [updatedAt |-> t])
    IN  IF got.threw THEN [threw |-> TRUE, saved |-> FALSE, clients |-> <<>>, val |-> <<>>]
        ELSE IF index = 0
        THEN [threw |-> FALSE, saved |-> FALSE, clients |-> got.val, val |-> <<>>]
        ELSE [threw |-> FALSE, saved |-> TRUE,
              clients |-> [got.val EXCEPT ![index] = merged], val |-> <<merged>>]

\* updateClient without `if (index === -1) return null`: clients[-1] is set,
\* which JSON.stringify leaves out, and the merged object is returned.
updateClientNoCheck(st, id, updatedData, t) ==
    LET got == getClients(st)
        index == findIndex(got.val, id)
        merged == Spread(Spread(IF index = 0 THEN <<>> ELSE got.val[index], updatedData),
                         [updatedAt |-> t])
    IN  IF got.threw THEN [threw |-> TRUE, saved |-> FALSE, clients |-> <<>>, val |-> <<>>]
        ELSE [threw |-> FALSE, saved |-> TRUE,
              clients |-> IF index = 0 THEN got.val ELSE [got.val EXCEPT ![index] = merged],
              val |-> <<merged>>]

\* What updateClient(id, updatedData) does on a slot st, t being the clock of
\* updatedAt: whether it threw, whether it saved, the array it saved and the
\* value it returned (<<>> for null).
updateClientOf(st, id, updatedData, t) ==
    LET got == getClients(st)
        index == findIndex(got.val, id)
        merged == Spread(Spread(got.val[index], updatedData), [updatedAt |-> t])
    IN  IF got.threw THEN [threw |-> TRUE, saved |-> FALSE, clients |-> <<>>, val |-> <<>>]
        ELSE IF index = 0
        THEN [threw |-> FALSE, saved |-> FALSE, clients |-> got.val, val |-> <<>>]
        ELSE [threw |-> FALSE, saved |-> TRUE,
              clients |-> [got.val EXCEPT ![index] = merged], val |-> <<merged>>]

\* updateClient(id, updatedData).
updateClient(id, updatedData, t) ==
    LET done == updateClientOf(storage, id, updatedData, t)
    IN  IF done.threw
        THEN /\ ret' = Threw("update")
             /\ UNCHANGED <<storage, now>>
        ELSE IF ~done.saved
        THEN /\ ret' = Returned("update", done.val)
             /\ UNCHANGED <<storage, now>>
        ELSE /\ now <= t
             /\ storage' = saveClients(done.clients)
             /\ now' = t
             /\ ret' = Returned("update", done.val)

\* deleteClient with the first match alone removed.
deleteClientFirstOnly(id) ==
    LET got == getClients(storage)
        index == findIndex(got.val, id)
        filtered == filter(got.val, (1..Len(got.val)) \ {index})
    IN  IF got.threw
        THEN /\ ret' = Threw("delete")
             /\ UNCHANGED <<storage, now>>
        ELSE IF Len(filtered) = Len(got.val)
        THEN /\ ret' = ReturnedBool("delete", FALSE)
             /\ UNCHANGED <<storage, now>>
        ELSE /\ storage' = saveClients(filtered)
             /\ ret' = ReturnedBool("delete", TRUE)
             /\ UNCHANGED now

\* deleteClient(id).
deleteClient(id) ==
    LET got == getClients(storage)
        filtered == filter(got.val, {i \in 1..Len(got.val) : got.val[i].id # id})
    IN  IF got.threw
        THEN /\ ret' = Threw("delete")
             /\ UNCHANGED <<storage, now>>
        ELSE IF Len(filtered) = Len(got.val)
        THEN /\ ret' = ReturnedBool("delete", FALSE)
             /\ UNCHANGED <<storage, now>>
        ELSE /\ storage' = saveClients(filtered)
             /\ ret' = ReturnedBool("delete", TRUE)
             /\ UNCHANGED now

\* The value of getClientById(id) on a slot st: clients.find(c => c.id === id) || null.
getClientByIdOf(st, id) ==
    LET got == getClients(st)
        index == findIndex(got.val, id)
    IN  IF got.threw THEN [threw |-> TRUE, val |-> <<>>]
        ELSE IF index = 0 THEN [threw |-> FALSE, val |-> <<>>]
        ELSE [threw |-> FALSE, val |-> <<got.val[index]>>]

\* getClientById(id).
getClientById(id) ==
    LET found == getClientByIdOf(storage, id)
    IN  /\ ret' = IF found.threw THEN Threw("getById") ELSE Returned("getById", found.val)
        /\ UNCHANGED <<storage, now>>

\* searchClients comparing the name as stored, without toLowerCase.
searchClientsOfCaseSensitive(st, query) ==
    LET got == getClients(st)
        lowerQuery == toLowerCase(query)
        matches == {i \in 1..Len(got.val) : includes(got.val[i].fullName, lowerQuery)}
    IN  IF got.threw THEN [threw |-> TRUE, val |-> <<>>]
        ELSE IF trim(query) = <<>> THEN [threw |-> FALSE, val |-> got.val]
        ELSE [threw |-> FALSE, val |-> filter(got.val, matches)]

\* The value of searchClients(query) on a slot st.
searchClientsOf(st, query) ==
    LET got == getClients(st)
        lowerQuery == toLowerCase(query)
        matches == {i \in 1..Len(got.val) :
                        includes(toLowerCase(got.val[i].fullName), lowerQuery)}
    IN  IF got.threw THEN [threw |-> TRUE, val |-> <<>>]
        ELSE IF trim(query) = <<>> THEN [threw |-> FALSE, val |-> got.val]
        ELSE [threw |-> FALSE, val |-> filter(got.val, matches)]

\* searchClients(query).
searchClients(query) ==
    LET found == searchClientsOf(storage, query)
    IN  /\ ret' = IF found.threw THEN Threw("search") ELSE Returned("search", found.val)
        /\ UNCHANGED <<storage, now>>

\* list(): a read of the whole collection through getClients.
listClients ==
    LET got == getClients(storage)
    IN  /\ ret' = IF got.threw THEN Threw("list") ELSE Returned("list", got.val)
        /\ UNCHANGED <<storage, now>>

\* addExerciseEntry with unshift in place of push: the entry goes first.
addExerciseEntryPrepend(clientId, exerciseData, t1, r, t2) ==
    LET client == getClientByIdOf(storage, clientId)
        old == IF "exerciseHistory" \in DOMAIN client.val[1]
               THEN client.val[1].exerciseHistory ELSE <<>>
        exerciseHistory == <<Spread([id |-> generateId(t1, r)], exerciseData)>> \o old
        done == updateClientOf(storage, clientId, [exerciseHistory |-> exerciseHistory], t2)
    IN  IF client.threw
        THEN /\ ret' = Threw("addEntry")
             /\ UNCHANGED <<storage, now>>
        ELSE IF client.val = <<>>
        THEN /\ ret' = Returned("addEntry", <<>>)
             /\ UNCHANGED <<storage, now>>
        ELSE /\ Len(old) < MaxHist
             /\ now <= t1 /\ t1 <= t2
             /\ storage' = saveClients(done.clients)
             /\ now' = t2
             /\ ret' = Returned("addEntry", done.val)

\* addExerciseEntry(clientId, exerciseData); t1 is Date.now() in generateId,
\* t2 the clock of updatedAt in the updateClient it ends with.  The client it
\* reads and the one updateClient finds are the same record: nothing runs
\* between the two reads of the slot.
addExerciseEntry(clientId, exerciseData, t1, r, t2) ==
    LET client == getClientByIdOf(storage, clientId)
        old == IF "exerciseHistory" \in DOMAIN client.val[1]
               THEN client.val[1].exerciseHistory ELSE <<>>
        exerciseHistory == Append(old, Spread([id |-> generateId(t1, r)], exerciseData))
        done == updateClientOf(storage, clientId, [exerciseHistory |-> exerciseHistory], t2)
    IN  IF client.threw
        THEN /\ ret' = Threw("addEntry")
             /\ UNCHANGED <<storage, now>>
        ELSE IF client.val = <<>>
        THEN /\ ret' = Returned("addEntry", <<>>)
             /\ UNCHANGED <<storage, now>>
        ELSE /\ Len(old) < MaxHist
             /\ now <= t1 /\ t1 <= t2
             /\ storage' = saveClients(done.clients)
             /\ now' = t2
             /\ ret' = Returned("addEntry", done.val)

(***************************************************************************)
(* Form validation.                                                        *)
(***************************************************************************)
DecDigits == <<"0", "1", "2", "3", "4", "5", "6", "7", "8", "9">>
HexDigits == DecDigits \o <<"a", "b", "c", "d", "e", "f">>

\* The value of character c as a digit of the radix, -1 when it is none.
digitValue(c, radix) ==
    IF \E i \in 1..radix : HexDigits[i] = lowerChar(c)
    THEN (CHOOSE i \in 1..radix : HexDigits[i] = lowerChar(c)) - 1
    ELSE 0 - 1

\* The number the first n characters of v spell in the radix.
RECURSIVE numberOf(_, _, _)
numberOf(v, n, radix) ==
    IF n = 0 THEN 0
    ELSE numberOf(v, n - 1, radix) * radix + digitValue(v[n], radix)

\* parseInt(string) with no radix: leading whitespace skipped, a sign, a 0x
\* prefix for hexadecimal, then the longest run of digits; what follows the
\* digits is ignored; NaN when there is no digit.
parseInt(s) ==
    LET first == IF \E i \in 1..Len(s) : s[i] \notin Whitespace
                 THEN CHOOSE i \in 1..Len(s) :
                        /\ s[i] \notin Whitespace
                        /\ \A j \in 1..(i - 1) : s[j] \in Whitespace
                 ELSE Len(s) + 1
        t == SubSeq(s, first, Len(s))
        signed == t # <<>> /\ t[1] \in {"+", "-"}
        u == IF signed THEN Tail(t) ELSE t
        hex == Len(u) >= 2 /\ u[1] = "0" /\ u[2] \in {"x", "X"}
        v == IF hex THEN SubSeq(u, 3, Len(u)) ELSE u
        radix == IF hex THEN 16 ELSE 10
        n == CHOOSE k \in 0..Len(v) :
                /\ \A i \in 1..k : digitValue(v[i], radix) >= 0
                /\ k < Len(v) => digitValue(v[k + 1], radix) < 0
        magnitude == numberOf(v, n, radix)
    IN  IF n = 0 THEN [nan |-> TRUE, n |-> 0]
        ELSE [nan |-> FALSE, n |-> IF signed /\ t[1] = "-" THEN 0 - magnitude ELSE magnitude]

\* isValidEmail: /^[^\s@]+@[^\s@]+\.[^\s@]+$/.
isValidEmail(email) ==
    LET plain(i, j) == \A k \in i..j : email[k] \notin Whitespace \cup {"@"}
    IN  \E at \in 2..Len(email), dot \in 3..(Len(email) - 1) :
            /\ email[at] = "@"
            /\ email[dot] = "."
            /\ at + 1 < dot
            /\ plain(1, at - 1)
            /\ plain(at + 1, dot - 1)
            /\ plain(dot + 1, Len(email))

\* isValidPhone: /^[\d\s\-\(\)\+]{7,20}$/.
isValidPhone(phone) ==
    /\ Len(phone) >= 7
    /\ Len(phone) <= 20
    /\ \A i \in 1..Len(phone) :
            \/ digitValue(phone[i], 10) >= 0
            \/ phone[i] \in Whitespace
            \/ phone[i] \in {"-", "(", ")", "+"}

\* formData.get(name): null when the form has no such field.
formGet(f, name) ==
    IF name \in DOMAIN f THEN [null |-> FALSE, v |-> f[name]]
    ELSE [null |-> TRUE, v |-> <<>>]

\* formData.get(name)?.trim(): undefined for null.
formGetTrimmed(f, name) ==
    IF name \in DOMAIN f THEN [null |-> FALSE, v |-> trim(f[name])]
    ELSE [null |-> TRUE, v |-> <<>>]

\* !x for a string, null or undefined.
falsy(x) == x.null \/ x.v = <<>>

\* validateClientForm(form).
validateClientForm(f) ==
    LET fullName == formGetTrimmed(f, "fullName")
        age == IF formGet(f, "age").null THEN [nan |-> TRUE, n |-> 0]
               ELSE parseInt(formGet(f, "age").v)
        gender == formGet(f, "gender")
        email == formGetTrimmed(f, "email")
        phone == formGetTrimmed(f, "phone")
        goal == formGet(f, "goal")
        startDate == formGet(f, "startDate")
        eFullName ==
            IF falsy(fullName) THEN [fullName |-> "Full name is required"]
            ELSE IF Len(fullName.v) < 2
            THEN [fullName |-> "Name must be at least 2 characters"]
            ELSE <<>>
        eAge ==
            IF age.n = 0 \/ age.nan THEN [age |-> "Age is required"]
            ELSE IF age.n < 1 \/ age.n > 120
            THEN [age |-> "Age must be between 1 and 120"]
            ELSE <<>>
        eGender == IF falsy(gender) THEN [gender |-> "Please select a gender"] ELSE <<>>
        eEmail ==
            IF falsy(email) THEN [email |-> "Email is required"]
            ELSE IF ~isValidEmail(email.v)
            THEN [email |-> "Please enter a valid email address"]
            ELSE <<>>
        ePhone ==
            IF falsy(phone) THEN [phone |-> "Phone number is required"]
            ELSE IF ~isValidPhone(phone.v)
            THEN [phone |-> "Please enter a valid phone number"]
            ELSE <<>>
        eGoal == IF falsy(goal) THEN [goal |-> "Please select a fitness goal"] ELSE <<>>
        eStartDate ==
            IF falsy(startDate) THEN [startDate |-> "Membership start date is required"]
            ELSE <<>>
        errors == Spread(Spread(Spread(eFullName, eAge), Spread(eGender, eEmail)),
                         Spread(Spread(ePhone, eGoal), eStartDate))
    IN  [ran |-> TRUE, isValid |-> Cardinality(DOMAIN errors) = 0, errors |-> errors]

(***************************************************************************)
(* The exercise suggestion service.  A text the code only passes on is a   *)
(* sequence of pieces (a fallback name is one piece); one it takes apart   *)
(* is a sequence of characters, and of tags in a description.              *)
(***************************************************************************)
\* The language id of English in `t.language === 2`.
EnglishLanguage == 2

\* The length descriptions are cut to in `.substring(0, 200)`.
DescriptionMax == 200

\* The markup pieces stripHtml removes from a description.
Tags == {"<p>", "</p>"}

\* stripHtml: the text content of the markup.
stripHtml(html) == filter(html, {i \in 1..Len(html) : html[i] \notin Tags})

\* String.prototype.substring(0, n) and Array.prototype.slice(0, n), n >= 0.
firstN(s, n) == SubSeq(s, 1, IF n < Len(s) THEN n ELSE Len(s))

Placeholder == <<"A great exercise for your fitness routine.">>

\* The body of the loop over data.results for one record ex that is an
\* object: whether it is skipped, and the exercise it adds to the pool.
normalize(ex) ==
    LET isArray == ex.translations.array
        trs == ex.translations.items
        english == {i \in 1..Len(trs) : trs[i].language = EnglishLanguage}
        found == isArray /\ english # {}
        englishTrans == trs[CHOOSE i \in english : \A j \in english : i <= j]
        name1 == IF found THEN trim(englishTrans.name) ELSE <<>>
        description1 == IF found THEN englishTrans.description ELSE <<>>
        first == isArray /\ name1 = <<>> /\ Len(trs) > 0
        name == IF first THEN trim(trs[1].name) ELSE name1
        description == IF first THEN trs[1].description ELSE description1
    IN  [skip |-> name = <<>>,
         val |-> [name |-> name,
                  category |-> IF ex.category.object THEN ex.category.name ELSE <<>>,
                  description |-> IF description # <<>>
                                  THEN firstN(stripHtml(description), DescriptionMax)
                                  ELSE Placeholder]]

\* allExercises after the loop over the records from position i on.
RECURSIVE poolFrom(_, _)
poolFrom(results, i) ==
    IF i > Len(results) THEN <<>>
    ELSE (IF normalize(results[i]).skip THEN <<>> ELSE <<normalize(results[i]).val>>)
            \o poolFrom(results, i + 1)

\* The try block from `data` on: a TypeError when data is null or a record
\* of data.results is null, otherwise allExercises.
poolOf(data) ==
    IF data.null THEN [threw |-> TRUE, val |-> <<>>]
    ELSE IF ~data.results.array THEN [threw |-> FALSE, val |-> <<>>]
    ELSE IF \E i \in 1..Len(data.results.items) : data.results.items[i].null
    THEN [threw |-> TRUE, val |-> <<>>]
    ELSE [threw |-> FALSE, val |-> poolFrom(data.results.items, 1)]

\* The outcomes of Math.floor(Math.random() * (i + 1)) of one shuffle of n
\* elements: for every position i from the last down to the second, a
\* position at or before it (positions count from 1 here).
Randoms(n) == {c \in [2..n -> 1..n] : \A i \in 2..n : c[i] <= i}

\* The loop of shuffleArray from position i down, with the random draws c.
RECURSIVE shuffleFrom(_, _, _)
shuffleFrom(shuffled, i, c) ==
    IF i < 2 THEN shuffled
    ELSE shuffleFrom([shuffled EXCEPT ![i] = shuffled[c[i]], ![c[i]] = shuffled[i]],
                     i - 1, c)

\* A shuffle that copies the drawn element over position i without putting
\* the element of position i in its place.
shuffleArrayNoSwap(array, c) ==
    [i \in 1..Len(array) |-> IF i < 2 THEN array[i] ELSE array[c[i]]]

\* shuffleArray(array) with the random draws c.
shuffleArray(array, c) == shuffleFrom(array, Len(array), c)

WeightLoss ==
    <<
       [name |-> <<"Jumping Jacks">>, description |-> <<"Full body cardio exercise. Jump while spreading legs and raising arms overhead.">>],
       [name |-> <<"Burpees">>, description |-> <<"High-intensity exercise combining squat, plank, and jump.">>],
       [name |-> <<"Mountain Climbers">>, description |-> <<"Core and cardio exercise in plank position with alternating knee drives.">>],
       [name |-> <<"High Knees">>, description |-> <<"Running in place while lifting knees to hip level.">>],
       [name |-> <<"Jump Rope">>, description |-> <<"Classic cardio exercise for endurance and coordination.">>]
    >>

MuscleGain ==
    <<
       [name |-> <<"Push-ups">>, description |-> <<"Upper body exercise targeting chest, shoulders, and triceps.">>],
       [name |-> <<"Squats">>, description |-> <<"Lower body exercise for quadriceps, hamstrings, and glutes.">>],
       [name |-> <<"Lunges">>, description |-> <<"Unilateral leg exercise for strength and balance.">>],
       [name |-> <<"Plank">>, description |-> <<"Isometric core exercise for stability and strength.">>],
       [name |-> <<"Dumbbell Rows">>, description |-> <<"Back exercise targeting lats and biceps.">>]
    >>

GeneralFitness ==
    <<
       [name |-> <<"Walking">>, description |-> <<"Low-impact cardio for overall health and endurance.">>],
       [name |-> <<"Stretching">>, description |-> <<"Flexibility exercises for mobility and injury prevention.">>],
       [name |-> <<"Bodyweight Squats">>, description |-> <<"Functional movement for lower body strength.">>],
       [name |-> <<"Plank Hold">>, description |-> <<"Core stability exercise for posture and strength.">>],
       [name |-> <<"Arm Circles">>, description |-> <<"Shoulder mobility and warm-up exercise.">>]
    >>

\* Keys every object literal inherits from Object.prototype; their values
\* are functions or objects, truthy and not iterable.
InheritedKeys ==
    {"constructor", "toString", "toLocaleString", "valueOf", "hasOwnProperty",
     "isPrototypeOf", "propertyIsEnumerable", "__proto__"}

\* getFallbackExercises(goal): exercises[goal] || exercises['General Fitness'].
getFallbackExercises(goal) ==
    CASE goal = "Weight Loss" -> [array |-> TRUE, val |-> WeightLoss]
      [] goal = "Muscle Gain" -> [array |-> TRUE, val |-> MuscleGain]
      [] goal = "General Fitness" -> [array |-> TRUE, val |-> GeneralFitness]
      [] goal \in InheritedKeys -> [array |-> FALSE, val |-> <<>>]
      [] OTHER -> [array |-> TRUE, val |-> GeneralFitness]

ErrorText == "Unable to load suggested exercises right now."

\* The catch block: the object it returns after shuffling the fallback
\* table, or the TypeError of spreading a value that is no array, which
\* leaves the promise of the call rejected.
catchBlock ==
    LET fallback == getFallbackExercises(sGoal)
    IN  IF ~fallback.array
        THEN /\ sPc' = "rejected"
             /\ sOut' = <<>>
        ELSE \E c \in Randoms(Len(fallback.val)) :
                /\ sPc' = "returned"
                /\ sOut' = [success |-> FALSE,
                            exercises |-> firstN(shuffleArray(fallback.val, c), sLimit),
                            error |-> ErrorText]

(***************************************************************************)
(* The repository as a state machine.                                      *)
(***************************************************************************)
NoCall == [op |-> "none", threw |-> FALSE, val |-> <<>>, ok |-> FALSE]

NotRun == [ran |-> FALSE, isValid |-> FALSE, errors |-> <<>>]

\* No form is being submitted.
FormIdle ==
    /\ form = <<>>
    /\ result = NotRun

\* fetchSuggestedExercises has not been called.
SuggestIdle ==
    /\ sPc = "idle"
    /\ sGoal = "General Fitness"
    /\ sLimit = 0
    /\ sPool = <<>>
    /\ sOut = <<>>

(***************************************************************************)
(* JSON.stringify and JSON.parse on the text itself.  A JavaScript value   *)
(* carries its type; a JSON text is the sequence of its tokens.            *)
(***************************************************************************)
JsUndefined == [type |-> "undefined"]
JsNull == [type |-> "null"]
JsNaN == [type |-> "number", finite |-> FALSE, n |-> 0]
JsNumber(n) == [type |-> "number", finite |-> TRUE, n |-> n]
JsString(s) == [type |-> "string", s |-> s]
JsArray(items) == [type |-> "array", items |-> items]
\* An object: its own keys in insertion order and their values.
JsObject(keys, vals) == [type |-> "object", keys |-> keys, vals |-> vals]

\* The tokens: punctuation, null, a number literal, a string literal.
Punct(p) == [k |-> p, s |-> <<>>, n |-> 0]
NullTok == [k |-> "null", s |-> <<>>, n |-> 0]
NumTok(n) == [k |-> "number", s |-> <<>>, n |-> n]
StrTok(s) == [k |-> "string", s |-> s, n |-> 0]

RECURSIVE JSONstringifyValue(_), stringifyElements(_, _), stringifyMembers(_, _, _)
\* JSON.stringify(value) for a value that is not undefined: a number that
\* is not finite is written null.
JSONstringifyValue(value) ==
    CASE value.type = "string" -> <<StrTok(value.s)>>
      [] value.type = "number" -> IF value.finite THEN <<NumTok(value.n)>> ELSE <<NullTok>>
      [] value.type = "array" ->
            <<Punct("[")>> \o stringifyElements(value.items, 1) \o <<Punct("]")>>
      [] value.type = "object" ->
            <<Punct("{")>> \o stringifyMembers(value, 1, FALSE) \o <<Punct("}")>>
      [] OTHER -> <<NullTok>>

\* The elements of an array from position i on: undefined is written null.
stringifyElements(items, i) ==
    IF i > Len(items) THEN <<>>
    ELSE (IF i > 1 THEN <<Punct(",")>> ELSE <<>>)
            \o (IF items[i].type = "undefined" THEN <<NullTok>>
                ELSE JSONstringifyValue(items[i]))
            \o stringifyElements(items, i + 1)

\* A writer that leaves out every key whose value is falsy to it: undefined
\* and also the empty string.
RECURSIVE stringifyMembersTruthy(_, _, _)
stringifyMembersTruthy(object, i, some) ==
    IF i > Len(object.keys) THEN <<>>
    ELSE IF object.vals[i].type = "undefined" \/ object.vals[i] = JsString(<<>>)
    THEN stringifyMembersTruthy(object, i + 1, some)
    ELSE (IF some THEN <<Punct(",")>> ELSE <<>>)
            \o <<StrTok(object.keys[i]), Punct(":")>>
            \o JSONstringifyValue(object.vals[i])
            \o stringifyMembersTruthy(object, i + 1, TRUE)

\* The members of an object from its i-th key on (some: a member was
\* written before): a key whose value is undefined is left out.
stringifyMembers(object, i, some) ==
    IF i > Len(object.keys) THEN <<>>
    ELSE IF object.vals[i].type = "undefined" THEN stringifyMembers(object, i + 1, some)
    ELSE (IF some THEN <<Punct(",")>> ELSE <<>>)
            \o <<StrTok(object.keys[i]), Punct(":")>>
            \o JSONstringifyValue(object.vals[i])
            \o stringifyMembers(object, i + 1, TRUE)

\* The parser found no value.
NoParse == [ok |-> FALSE, val |-> JsNull, next |-> 0]
Parsed(val, next) == [ok |-> TRUE, val |-> val, next |-> next]

\* The object with key set to val: a repeated key keeps its place and takes
\* the later value.
withMember(keys, vals, key, val) ==
    IF \E j \in 1..Len(keys) : keys[j] = key
    THEN JsObject(keys, [j \in 1..Len(keys) |-> IF keys[j] = key THEN val ELSE vals[j]])
    ELSE JsObject(Append(keys, key), Append(vals, val))

RECURSIVE parseValue(_, _), parseElements(_, _, _), parseMembers(_, _, _)
\* The value that starts at token i, and the position after it.
parseValue(text, i) ==
    IF i > Len(text) THEN NoParse
    ELSE CASE text[i].k = "string" -> Parsed(JsString(text[i].s), i + 1)
           [] text[i].k = "number" -> Parsed(JsNumber(text[i].n), i + 1)
           [] text[i].k = "null" -> Parsed(JsNull, i + 1)
           [] text[i].k = "[" ->
                IF i < Len(text) /\ text[i + 1].k = "]" THEN Parsed(JsArray(<<>>), i + 2)
                ELSE parseElements(text, i + 1, <<>>)
           [] text[i].k = "{" ->
                IF i < Len(text) /\ text[i + 1].k = "}" THEN Parsed(JsObject(<<>>, <<>>), i + 2)
                ELSE parseMembers(text, i + 1, JsObject(<<>>, <<>>))
           [] OTHER -> NoParse

\* The rest of an array whose elements so far are items.
parseElements(text, i, items) ==
    LET v == parseValue(text, i)
    IN  IF ~v.ok \/ v.next > Len(text) THEN NoParse
        ELSE IF text[v.next].k = "," THEN parseElements(text, v.next + 1, Append(items, v.val))
        ELSE IF text[v.next].k = "]" THEN Parsed(JsArray(Append(items, v.val)), v.next + 1)
        ELSE NoParse

\* The rest of an object whose members so far are those of object.
parseMembers(text, i, object) ==
    IF i + 1 > Len(text) \/ text[i].k # "string" \/ text[i + 1].k # ":" THEN NoParse
    ELSE LET v == parseValue(text, i + 2)
             o == withMember(object.keys, object.vals, text[i].s, v.val)
         IN  IF ~v.ok \/ v.next > Len(text) THEN NoParse
             ELSE IF text[v.next].k = "," THEN parseMembers(text, v.next + 1, o)
             ELSE IF text[v.next].k = "}" THEN Parsed(o, v.next + 1)
             ELSE NoParse

\* JSON.parse(text): the value of the whole text, a SyntaxError otherwise.
JSONparseText(text) ==
    LET v == parseValue(text, 1)
    IN  IF v.ok /\ v.next = Len(text) + 1
        THEN [threw |-> FALSE, val |-> v.val]
        ELSE [threw |-> TRUE, val |-> JsUndefined]

\* localStorage.getItem of a key that has no item returns null.
NoText == [present |-> FALSE, text |-> <<>>]

\* saveClients on the text: the item after setItem(STORAGE_KEY, JSON.stringify(clients)).
saveClientsText(clients) == [present |-> TRUE, text |-> JSONstringifyValue(clients)]

\* getClients on the text: `data ? JSON.parse(data) : []` (null and the
\* empty text are falsy).
getClientsText(data) ==
    IF ~data.present \/ data.text = <<>> THEN [threw |-> FALSE, val |-> JsArray(<<>>)]
    ELSE JSONparseText(data.text)

NotLoaded == [ran |-> FALSE, read |-> FALSE, threw |-> FALSE, val |-> JsUndefined]

\* No text has been written or read at the level of its tokens.
TextIdle ==
    /\ saved = JsArray(<<>>)
    /\ item = NoText
    /\ loaded = NotLoaded

\* The pages open in the browser, each with its own thread.
Tabs == {1, 2}

NoOp == [op |-> "none", id |-> SomeId, data |-> <<>>]

\* No tab is inside a repository operation.
TabsIdle ==
    /\ tPc = [w \in Tabs |-> "idle"]
    /\ tOp = [w \in Tabs |-> NoOp]
    /\ tCopy = [w \in Tabs |-> <<>>]
    /\ tMissed = [w \in Tabs |-> {}]

MoreIdle == TextIdle /\ TabsIdle

Init ==
    /\ storage = NoItem
    /\ now = 0
    /\ ret = NoCall
    /\ FormIdle
    /\ SuggestIdle
    /\ MoreIdle

Add ==
    /\ \E f \in AddMaps, t1 \in Times, r \in Suffixes, t2 \in Times : addClient(f, t1, r, t2)
    /\ UNCHANGED <<varsForm, varsSuggest, varsMore>>
Update ==
    /\ \E id \in Ids, f \in UpdMaps, t \in Times : updateClient(id, f, t)
    /\ UNCHANGED <<varsForm, varsSuggest, varsMore>>
Delete ==
    /\ \E id \in Ids : deleteClient(id)
    /\ UNCHANGED <<varsForm, varsSuggest, varsMore>>
GetById ==
    /\ \E id \in Ids : getClientById(id)
    /\ UNCHANGED <<varsForm, varsSuggest, varsMore>>
Search ==
    /\ \E q \in Queries : searchClients(q)
    /\ UNCHANGED <<varsForm, varsSuggest, varsMore>>
List ==
    /\ listClients
    /\ UNCHANGED <<varsForm, varsSuggest, varsMore>>
AddEntry ==
    /\ \E id \in Ids, e \in EntryMaps, t1 \in Times, r \in Suffixes, t2 \in Times :
            addExerciseEntry(id, e, t1, r, t2)
    /\ UNCHANGED <<varsForm, varsSuggest, varsMore>>

Next == Add \/ Update \/ Delete \/ GetById \/ Search \/ List \/ AddEntry

Spec == Init /\ [][Next]_vars

\* The same repository over a slot found in any condition when the page opens.
InitCorrupt ==
    /\ storage \in {NoItem, EmptyText, MalformedText}
    /\ now = 0
    /\ ret = NoCall
    /\ FormIdle
    /\ SuggestIdle
    /\ MoreIdle

SpecCorrupt == InitCorrupt /\ [][Next]_vars

(***************************************************************************)
(* The page load: the DOMContentLoaded handler and initializeSampleData.   *)
(* Of a sample client the model keeps the fields the repository looks at,  *)
(* as it does of a form's.                                                 *)
(***************************************************************************)
\* The random suffixes one load draws for its generateId calls, per sample
\* client: its own and those of its three history entries.
SampleDraws ==
    {<< <<"s1", "s1e1", "s1e2", "s1e3">>, <<"s2", "s2e1", "s2e2", "s2e3">>,
        <<"s3", "s3e1", "s3e2", "s3e3">>, <<"s4", "s4e1", "s4e2", "s4e3">>,
        <<"s5", "s5e1", "s5e2", "s5e3">> >>}

SampleEntry(t, r, date, title, notes, tags) ==
    [id |-> generateId(t, r), date |-> date, title |-> title, notes |-> notes,
     tags |-> tags]

SampleClient(t, r, fullName, exerciseHistory) ==
    [id |-> generateId(t, r), fullName |-> fullName, createdAt |-> t,
     exerciseHistory |-> exerciseHistory]

\* sampleClients, built at clock reading t with the draws of the load.
sampleClients(t, draws) ==
    <<
       SampleClient(t, draws[1][1], <<"S", "a", "r", "a", " ", "A", "h", "m", "e", "d">>,
         <<
            SampleEntry(t, draws[1][2], "2025-09-12", "HIIT Exercise", "High intensity interval training",
                        <<"Burpees", "Jump Rope", "Mountain Climbers">>),
            SampleEntry(t, draws[1][3], "2025-09-05", "Initial Assessment - 30 min Cardio", "First cardio session",
                        <<"Treadmill", "Cycling">>),
            SampleEntry(t, draws[1][4], "2025-08-28", "Strength Training - Upper Body", "Focus on upper body strength",
                        <<"Bench Press", "Rows", "Shoulder Press">>)
         >>),
       SampleClient(t, draws[2][1], <<"O", "m", "a", "r", " ", "H", "a", "s", "s", "a", "n">>,
         <<
            SampleEntry(t, draws[2][2], "2025-09-10", "HIIT Exercise", "High intensity circuit",
                        <<"Burpees", "Jump Rope", "Mountain Climbers">>),
            SampleEntry(t, draws[2][3], "2025-09-01", "Initial Assessment - 30 min Cardio", "Baseline cardio test",
                        <<"Treadmill", "Cycling">>),
            SampleEntry(t, draws[2][4], "2025-08-20", "Strength Training - Upper Body", "Chest and shoulders focus",
                        <<"Bench Press", "Rows", "Shoulder Press">>)
         >>),
       SampleClient(t, draws[3][1], <<"M", "a", "r", "i", "a", "m", " ", "N", "a", "b", "i", "l">>,
         <<
            SampleEntry(t, draws[3][2], "2025-08-15", "HIIT Exercise", "Interval training session",
                        <<"Burpees", "Jump Rope", "Mountain Climbers">>),
            SampleEntry(t, draws[3][3], "2025-08-01", "Initial Assessment - 30 min Cardio", "Cardio baseline",
                        <<"Treadmill", "Cycling">>),
            SampleEntry(t, draws[3][4], "2025-07-20", "Strength Training - Upper Body", "Upper body introduction",
                        <<"Bench Press", "Rows", "Shoulder Press">>)
         >>),
       SampleClient(t, draws[4][1], <<"Y", "o", "u", "s", "s", "e", "f", " ", "A", "l", "i">>,
         <<
            SampleEntry(t, draws[4][2], "2025-10-15", "HIIT Exercise", "High intensity workout",
                        <<"Burpees", "Jump Rope", "Mountain Climbers">>),
            SampleEntry(t, draws[4][3], "2025-10-05", "Initial Assessment - 30 min Cardio", "First cardio evaluation",
                        <<"Treadmill", "Cycling">>),
            SampleEntry(t, draws[4][4], "2025-09-25", "Strength Training - Upper Body", "Building upper body strength",
                        <<"Bench Press", "Rows", "Shoulder Press">>)
         >>),
       SampleClient(t, draws[5][1], <<"L", "a", "i", "l", "a", " ", "S", "a", "m", "i", "r">>,
         <<
            SampleEntry(t, draws[5][2], "2025-07-12", "HIIT Exercise", "Fat burning HIIT",
                        <<"Burpees", "Jump Rope", "Mountain Climbers">>),
            SampleEntry(t, draws[5][3], "2025-06-25", "Initial Assessment - 30 min Cardio", "Starting cardio routine",
                        <<"Treadmill", "Cycling">>),
            SampleEntry(t, draws[5][4], "2025-06-15", "Strength Training - Upper Body", "Light upper body work",
                        <<"Bench Press", "Rows", "Shoulder Press">>)
         >>)
    >>

\* initializeSampleData() on slot st: whether it threw, and the slot after.
initializeSampleData(st, t, draws) ==
    LET got == getClients(st)
    IN  IF got.threw THEN [threw |-> TRUE, st |-> st]
        ELSE IF Len(got.val) > 0 THEN [threw |-> FALSE, st |-> st]
        ELSE [threw |-> FALSE, st |-> saveClients(sampleClients(t, draws))]

\* The DOMContentLoaded handler: the slot is emptied unless its first client
\* has a history entry, then initializeSampleData runs.
PageLoad ==
    \E t \in Times, draws \in SampleDraws :
        LET got == getClients(storage)
            hasExerciseHistory ==
                /\ Len(got.val) > 0
                /\ "exerciseHistory" \in DOMAIN got.val[1]
                /\ Len(got.val[1].exerciseHistory) > 0
            cleared == IF hasExerciseHistory THEN storage ELSE NoItem
        IN  /\ now <= t
            /\ IF got.threw
               THEN /\ ret' = Threw("pageLoad")
                    /\ UNCHANGED <<storage, now>>
               ELSE /\ storage' = initializeSampleData(cleared, t, draws).st
                    /\ now' = IF storage' = storage THEN now ELSE t
                    /\ ret' = Returned("pageLoad", <<>>)
            /\ UNCHANGED <<varsForm, varsSuggest, varsMore>>

NextPage == Next \/ PageLoad

\* The repository with the page loaded again at any moment.
SpecPage == Init /\ [][NextPage]_vars

(***************************************************************************)
(* The validator as a state machine: a form is submitted and validated.    *)
(***************************************************************************)
FullNameInputs == {<<>>, <<" ", " ">>, <<" ", "A", " ">>, <<"A", "l">>}

AgeInputs ==
    {<<>>, <<"0">>, <<"1">>, <<"1", "2", "0">>, <<"1", "2", "1">>, <<"-", "5">>,
     <<"1", "e", "3">>}

ChoiceInputs == {<<>>, <<"M", "a", "l", "e">>}

EmailInputs ==
    {<<>>, <<"b", "a", "d">>, <<"a", "@", "b">>, <<"a", "@", "b", ".", "c", "o">>,
     <<" ", "a", "@", "b", ".", "c", "o", " ">>, <<"a", " ", "@", "b", ".", "c", "o">>}

Digits7 == <<"1", "2", "3", "4", "5", "6", "7">>

PhoneInputs ==
    {<<>>, SubSeq(Digits7, 1, 6), Digits7,
     <<"+", "2", "0", " ", "(", "1", "0", ")", " ", "1", "2", "-", "3", "4">>,
     <<"1", "2", "3", "a", "5", "6", "7">>,
     <<"1", "2", "3", "\t", "5", "6", "7">>,
     Digits7 \o Digits7 \o SubSeq(Digits7, 1, 6),
     <<" ">> \o Digits7 \o Digits7 \o Digits7}

FieldInputs(k) ==
    CASE k = "fullName" -> FullNameInputs
      [] k = "age" -> AgeInputs
      [] k = "email" -> EmailInputs
      [] k = "phone" -> PhoneInputs
      [] OTHER -> ChoiceInputs

\* The ways a form carries field k: with one of its raw values.
Carried(k) == {[x \in {k} |-> v] : v \in FieldInputs(k)}

\* The same, or not at all (formData.get then returns null).
CarriedOrNot(k) == {<<>>} \cup Carried(k)

RepoIdle ==
    /\ storage = NoItem
    /\ now = 0
    /\ ret = NoCall

InitValidate ==
    /\ \E a \in CarriedOrNot("fullName"), b \in CarriedOrNot("age"),
          c \in CarriedOrNot("gender"), d \in Carried("email"), e \in Carried("phone"),
          g \in Carried("goal"), h \in Carried("startDate") :
            form = Spread(Spread(Spread(a, b), Spread(c, d)), Spread(Spread(e, g), h))
    /\ result = NotRun
    /\ RepoIdle
    /\ SuggestIdle
    /\ MoreIdle

Validate ==
    /\ ~result.ran
    /\ result' = validateClientForm(form)
    /\ UNCHANGED <<form, varsRepo, varsSuggest, varsMore>>

NextValidate == Validate

SpecValidate == InitValidate /\ [][NextValidate]_vars

(***************************************************************************)
(* fetchSuggestedExercises as a state machine: the call, the response of   *)
(* fetch, the body of the response, each continuation running to the next  *)
(* await or to the end.                                                    *)
(***************************************************************************)
\* data.results holds at most MaxResults records.
MaxResults == 3

Goals == {"Weight Loss", "Muscle Gain", "General Fitness", "Endurance", "constructor"}

\* The default of the limit parameter.
DefaultLimit == 5

\* The limits asked for: the default and a smaller one.
Limits == {2, DefaultLimit}

\* The id of a language that is not English.
OtherLanguage == EnglishLanguage + 1

Translation(language, name, description) ==
    [language |-> language, name |-> name, description |-> description]

Record(translations, category) ==
    [null |-> FALSE, translations |-> [array |-> TRUE, items |-> translations],
     category |-> category]

NoCategory == [object |-> FALSE, name |-> <<>>]
Category(name) == [object |-> TRUE, name |-> name]

\* An English name with whitespace around it, a description with markup, a category.
ExSquat ==
    Record(<<Translation(EnglishLanguage, <<" ", "S", "q">>, <<"<p>", "d", "</p>">>)>>,
           Category(<<"Legs">>))
\* No English translation; the first translation has a name and no description.
ExPush == Record(<<Translation(OtherLanguage, <<"P", "u">>, <<>>)>>, NoCategory)
\* A blank English name after a first translation with a name.
ExLunge ==
    Record(<<Translation(OtherLanguage, <<"L", "u">>, <<"d">>),
             Translation(EnglishLanguage, <<" ">>, <<"e">>)>>, NoCategory)
\* No name in any translation.
ExNameless == Record(<<Translation(EnglishLanguage, <<>>, <<"d">>)>>, NoCategory)
\* translations is no array.
ExBare ==
    [null |-> FALSE, translations |-> [array |-> FALSE, items |-> <<>>],
     category |-> NoCategory]
\* null in place of a record.
ExNull ==
    [null |-> TRUE, translations |-> [array |-> FALSE, items |-> <<>>],
     category |-> NoCategory]

Records == {ExSquat, ExPush, ExLunge, ExNameless, ExBare, ExNull}

\* The bodies response.json() resolves to: null, an object with no results
\* array, and an object with one.
Datas ==
    {[null |-> TRUE, results |-> [array |-> FALSE, items |-> <<>>]],
     [null |-> FALSE, results |-> [array |-> FALSE, items |-> <<>>]]}
    \cup {[null |-> FALSE, results |-> [array |-> TRUE, items |-> items]] :
            items \in UNION {[1..n -> Records] : n \in 0..MaxResults}}

InitSuggest ==
    /\ SuggestIdle
    /\ RepoIdle
    /\ FormIdle
    /\ MoreIdle

\* fetchSuggestedExercises(goal, limit) up to `await fetch(...)`.
SuggestCall ==
    /\ sPc \in {"idle", "returned", "rejected"}
    /\ \E goal \in Goals, limit \in Limits :
            /\ sGoal' = goal
            /\ sLimit' = limit
    /\ sPc' = "fetch"
    /\ sPool' = <<>>
    /\ sOut' = <<>>
    /\ UNCHANGED <<varsRepo, varsForm, varsMore>>

\* fetch rejects (a network failure): the catch block runs.
FetchRejects ==
    /\ sPc = "fetch"
    /\ catchBlock
    /\ UNCHANGED <<sGoal, sLimit, sPool, varsRepo, varsForm, varsMore>>

\* fetch resolves: `!response.ok` throws into the catch block, otherwise the
\* call waits at `await response.json()`.
FetchResolves ==
    /\ sPc = "fetch"
    /\ \E ok \in BOOLEAN :
            IF ok THEN sPc' = "json" /\ sOut' = sOut ELSE catchBlock
    /\ UNCHANGED <<sGoal, sLimit, sPool, varsRepo, varsForm, varsMore>>

\* response.json() rejects (the body is no JSON): the catch block runs.
JsonRejects ==
    /\ sPc = "json"
    /\ catchBlock
    /\ UNCHANGED <<sGoal, sLimit, sPool, varsRepo, varsForm, varsMore>>

\* response.json() resolves to data: the pool is built, shuffled and cut to
\* limit; an exception or an empty pool goes to the catch block.
JsonResolves ==
    /\ sPc = "json"
    /\ \E data \in Datas :
            LET pool == poolOf(data)
            IN  IF pool.threw \/ Len(pool.val) = 0
                THEN /\ catchBlock
                     /\ sPool' = sPool
                ELSE \E c \in Randoms(Len(pool.val)) :
                        /\ sPc' = "returned"
                        /\ sPool' = pool.val
                        /\ sOut' = [success |-> TRUE,
                                    exercises |-> firstN(shuffleArray(pool.val, c), sLimit)]
    /\ UNCHANGED <<sGoal, sLimit, varsRepo, varsForm, varsMore>>

NextSuggest == SuggestCall \/ FetchRejects \/ FetchResolves \/ JsonRejects \/ JsonResolves

SpecSuggest == InitSuggest /\ [][NextSuggest]_vars

\* The request of every call settles: fetch resolves or rejects, and so does
\* the reading of the body; the continuation then runs.  Nothing obliges the
\* page to call again.
SpecSuggestSettles ==
    /\ SpecSuggest
    /\ WF_vars(FetchRejects \/ FetchResolves)
    /\ WF_vars(JsonRejects \/ JsonResolves)

(***************************************************************************)
(* Saving a collection and loading it again, on the text.                  *)
(***************************************************************************)
\* The collections saved hold at most MaxSaved clients.
MaxSaved == 2
\* Each of their histories holds at most MaxSavedHist entries.
MaxSavedHist == 1

\* A string the code does not look into.
Text(x) == JsString(<<x>>)

EntryKeys == << <<"id">>, <<"date">>, <<"title">>, <<"notes">>, <<"tags">> >>

\* The history entries: with tags and notes, and with neither.
SavedEntries ==
    {JsObject(EntryKeys, <<Text("client_1_b"), Text("2025-09-12"), Text("HIIT"),
                           Text("High intensity"),
                           JsArray(<<Text("Burpees"), Text("Jump Rope")>>)>>),
     JsObject(EntryKeys, <<Text("client_1_c"), Text("2025-09-05"), Text("Cardio"),
                           JsString(<<>>), JsArray(<<>>)>>)}

SavedHistories == UNION {[1..n -> SavedEntries] : n \in 0..MaxSavedHist}

ClientKeys ==
    << <<"id">>, <<"fullName">>, <<"age">>, <<"gender">>, <<"email">>, <<"phone">>,
       <<"goal">>, <<"goalText">>, <<"startDate">>, <<"createdAt">>, <<"exerciseHistory">> >>

\* A client as addClient builds it from the data of a valid form.
SavedClient(age, goalText, history) ==
    JsObject(ClientKeys,
             <<Text("client_1_a"), JsString(<<"A", "l">>), JsNumber(age), Text("Male"),
               Text("a@b.co"), Text("+20 10 1234"), Text("Weight Loss"),
               JsString(goalText), Text("2025-09-01"), Text("2025-09-01T10:00:00.000Z"),
               JsArray(history)>>)

\* The same client after updateClient, which adds updatedAt as the last key.
Updated(client) ==
    JsObject(Append(client.keys, <<"updatedAt">>),
             Append(client.vals, Text("2025-09-02T10:00:00.000Z")))

\* The clients saved: a young one with no goal text, an old one with a goal
\* text, and the young one after an update; each with every history.
SavedClients ==
    LET young == {SavedClient(1, <<>>, history) : history \in SavedHistories}
        old == {SavedClient(120, <<"Lose 5kg">>, history) : history \in SavedHistories}
    IN  young \cup old \cup {Updated(c) : c \in young}

InitRoundTrip ==
    /\ \E n \in 0..MaxSaved : \E clients \in [1..n -> SavedClients] :
            saved = JsArray(clients)
    /\ item = NoText
    /\ loaded = NotLoaded
    /\ RepoIdle
    /\ FormIdle
    /\ SuggestIdle
    /\ TabsIdle

\* saveClients(saved).
SaveText ==
    /\ item = NoText
    /\ item' = saveClientsText(saved)
    /\ UNCHANGED <<saved, loaded, varsRepo, varsForm, varsSuggest, varsTabs>>

\* getClients(), before or after the collection was saved.
LoadText ==
    /\ ~loaded.ran
    /\ loaded' = [ran |-> TRUE, read |-> item.present,
                  threw |-> getClientsText(item).threw, val |-> getClientsText(item).val]
    /\ UNCHANGED <<saved, item, varsRepo, varsForm, varsSuggest, varsTabs>>

NextRoundTrip == SaveText \/ LoadText

SpecRoundTrip == InitRoundTrip /\ [][NextRoundTrip]_vars

(***************************************************************************)
(* Two tabs on the one slot.  Inside a tab a repository function runs      *)
(* without suspension; another tab's thread can run between its getItem    *)
(* and its setItem.  addClient and updateClient are split there.           *)
(***************************************************************************)
\* While a tab is between its read and its save, the other tabs save at
\* most MaxMissed times.
MaxMissed == 1

\* Field mappings a tab passes to updateClient.
TabUpdMaps == {[fullName |-> n] : n \in Names}

\* A tab that reads the slot again when it saves, and changes what it finds
\* there instead of the array it read at first.
writeBackReread(w, t1, r, t2) ==
    LET clients == getClients(storage).val
        newClient == Spread(Spread([id |-> generateId(t1, r)], tOp[w].data),
                            [createdAt |-> t2, exerciseHistory |-> <<>>])
        index == findIndex(clients, tOp[w].id)
        merged == Spread(Spread(clients[index], tOp[w].data), [updatedAt |-> t2])
    IN  IF tOp[w].op = "add"
        THEN [clients |-> Append(clients, newClient), rec |-> newClient]
        ELSE IF index = 0 THEN [clients |-> clients, rec |-> tCopy[w][1]]
        ELSE [clients |-> [clients EXCEPT ![index] = merged], rec |-> merged]

\* From after `const clients = getClients()` to saveClients(clients) in tab
\* w: the array it saves and the record it put there.  t1 and r are the
\* clock and the random suffix of generateId, t2 the clock of createdAt or
\* updatedAt.
writeBack(w, t1, r, t2) ==
    LET clients == tCopy[w]
        newClient == Spread(Spread([id |-> generateId(t1, r)], tOp[w].data),
                            [createdAt |-> t2, exerciseHistory |-> <<>>])
        index == findIndex(clients, tOp[w].id)
        merged == Spread(Spread(clients[index], tOp[w].data), [updatedAt |-> t2])
    IN  IF tOp[w].op = "add"
        THEN [clients |-> Append(clients, newClient), rec |-> newClient]
        ELSE [clients |-> [clients EXCEPT ![index] = merged], rec |-> merged]

InitTabs ==
    /\ RepoIdle
    /\ FormIdle
    /\ SuggestIdle
    /\ TextIdle
    /\ TabsIdle

\* Tab w enters addClient(clientData) and reads the slot.
TabAddRead ==
    \E w \in Tabs, f \in FormMaps :
        /\ tPc[w] = "idle"
        /\ ~getClients(storage).threw
        /\ Len(getClients(storage).val) < MaxClients
        /\ tPc' = [tPc EXCEPT ![w] = "read"]
        /\ tOp' = [tOp EXCEPT ![w] = [op |-> "add", id |-> SomeId, data |-> f]]
        /\ tCopy' = [tCopy EXCEPT ![w] = getClients(storage).val]
        /\ tMissed' = [tMissed EXCEPT ![w] = {}]
        /\ UNCHANGED <<varsRepo, varsForm, varsSuggest, varsText>>

\* Tab w enters updateClient(id, updatedData), reads the slot and finds the
\* id (when it does not, the function returns null and has changed nothing).
TabUpdateRead ==
    \E w \in Tabs, id \in Ids, f \in TabUpdMaps :
        /\ tPc[w] = "idle"
        /\ ~getClients(storage).threw
        /\ findIndex(getClients(storage).val, id) # 0
        /\ tPc' = [tPc EXCEPT ![w] = "read"]
        /\ tOp' = [tOp EXCEPT ![w] = [op |-> "update", id |-> id, data |-> f]]
        /\ tCopy' = [tCopy EXCEPT ![w] = getClients(storage).val]
        /\ tMissed' = [tMissed EXCEPT ![w] = {}]
        /\ UNCHANGED <<varsRepo, varsForm, varsSuggest, varsText>>

\* Tab w builds its record and saves its array.
TabWrite ==
    \E w \in Tabs, t1 \in Times, r \in Suffixes, t2 \in Times :
        /\ tPc[w] = "read"
        /\ \A u \in Tabs \ {w} : tPc[u] = "read" => Cardinality(tMissed[u]) < MaxMissed
        /\ now <= t1 /\ t1 <= t2
        /\ storage' = saveClients(writeBack(w, t1, r, t2).clients)
        /\ now' = t2
        /\ tPc' = [tPc EXCEPT ![w] = "idle"]
        /\ tOp' = [tOp EXCEPT ![w] = NoOp]
        /\ tCopy' = [tCopy EXCEPT ![w] = <<>>]
        /\ tMissed' = [u \in Tabs |->
                        IF u = w
                        THEN {rec \in tMissed[w] :
                                \A i \in 1..Len(writeBack(w, t1, r, t2).clients) :
                                    writeBack(w, t1, r, t2).clients[i] # rec}
                        ELSE IF tPc[u] = "read"
                        THEN tMissed[u] \cup {writeBack(w, t1, r, t2).rec}
                        ELSE tMissed[u]]
        /\ UNCHANGED <<ret, varsForm, varsSuggest, varsText>>

NextTabs == TabAddRead \/ TabUpdateRead \/ TabWrite

SpecTabs == InitTabs /\ [][NextTabs]_vars

(***************************************************************************)
(* The claims about the repository.                                        *)
(***************************************************************************)
\* The collection a slot holds.
Collection(st) == getClients(st).val

IdsOf(clients) == {clients[i].id : i \in 1..Len(clients)}

\* C1: for every valid field mapping f, add(f) followed by getById of the
\* returned id returns a record with exactly the fields of f, an id that was in
\* no record of the collection before, a creation timestamp and an empty
\* exerciseHistory.
C1_AddThenGetById ==
    [][\A f \in FormMaps, t1 \in Times, r \in Suffixes, t2 \in Times :
        (ret'.op = "add" /\ ~ret'.threw /\ addClient(f, t1, r, t2)) =>
            LET got == getClientByIdOf(storage', ret'.val[1].id)
            IN  /\ ~got.threw
                /\ Len(got.val) = 1
                /\ DOMAIN got.val[1] = (DOMAIN f) \cup {"id", "createdAt", "exerciseHistory"}
                /\ \A k \in DOMAIN f : got.val[1][k] = f[k]
                /\ got.val[1].createdAt \in Times
                /\ got.val[1].exerciseHistory = <<>>
                /\ got.val[1].id \notin IdsOf(Collection(storage))
      ]_vars

\* C2: no two records of the persisted collection have the same id, whatever
\* add, update, delete and addHistoryEntry calls were made.
C2_UniqueIds ==
    \A i, j \in 1..Len(Collection(storage)) :
        i # j => Collection(storage)[i].id # Collection(storage)[j].id

\* C3: update(id, fields) on a present id overwrites exactly the supplied
\* fields, retains every other field of the record and stamps updatedAt; so
\* update(id, {}) changes nothing but updatedAt.
C3_UpdateMerges ==
    [][\A id \in Ids, f \in UpdMaps, t \in Times :
        (ret'.op = "update" /\ id \in IdsOf(Collection(storage)) /\ updateClient(id, f, t)) =>
            LET index == findIndex(Collection(storage), id)
                old == Collection(storage)[index]
                new == Collection(storage')[index]
            IN  /\ ret' = Returned("update", <<new>>)
                /\ DOMAIN new = (DOMAIN old) \cup (DOMAIN f) \cup {"updatedAt"}
                /\ \A k \in (DOMAIN f) \ {"updatedAt"} : new[k] = f[k]
                /\ \A k \in (DOMAIN old) \ ((DOMAIN f) \cup {"updatedAt"}) : new[k] = old[k]
                /\ new.updatedAt = t
      ]_vars

C3_Witness ==
    /\ ret.op = "update"
    /\ Len(ret.val) = 1
    /\ ret.val[1].exerciseHistory # <<>>
    /\ ret.val[1].updatedAt \in Times

\* C4: update and getById with an id that matches no record return null
\* without throwing, and update then leaves the persisted collection as it was.
C4_NotFound ==
    [][\A id \in Ids :
        (ret'.op \in {"update", "getById"} /\ id \notin IdsOf(Collection(storage))) =>
            /\ \A f \in UpdMaps, t \in Times :
                    updateClient(id, f, t) =>
                        ret' = Returned("update", <<>>) /\ storage' = storage
            /\ getClientById(id) => ret' = Returned("getById", <<>>)
      ]_vars

C4_Witness ==
    /\ ret = Returned("update", <<>>)
    /\ Len(Collection(storage)) >= 1

\* C5: delete of a present id returns true and getById of it then finds
\* nothing; delete of an absent id returns false and leaves the persisted
\* collection as it was.
C5_Delete ==
    [][\A id \in Ids :
        (ret'.op = "delete" /\ deleteClient(id)) =>
            IF id \in IdsOf(Collection(storage))
            THEN /\ ret' = ReturnedBool("delete", TRUE)
                 /\ getClientByIdOf(storage', id) = [threw |-> FALSE, val |-> <<>>]
            ELSE /\ ret' = ReturnedBool("delete", FALSE)
                 /\ storage' = storage
      ]_vars

C5_Witness ==
    /\ ret = ReturnedBool("delete", TRUE)
    /\ Len(Collection(storage)) >= 1

\* C6: load fails soft: on an absent or malformed slot it returns the empty
\* sequence, and no repository operation throws.
C6_LoadFailsSoft ==
    /\ storage.kind \in {"null", "malformed"} =>
            getClients(storage) = [threw |-> FALSE, val |-> <<>>]
    /\ ~ret.threw

\* C7: addHistoryEntry on a present client appends one entry, identified by
\* generateId, at the end of that client's exerciseHistory, the previous
\* history staying as its prefix; on an absent client it returns null and
\* changes nothing.
C7_HistoryAppend ==
    [][\A id \in Ids, e \in EntryMaps, t1 \in Times, r \in Suffixes, t2 \in Times :
        (ret'.op = "addEntry" /\ addExerciseEntry(id, e, t1, r, t2)) =>
            IF id \in IdsOf(Collection(storage))
            THEN LET index == findIndex(Collection(storage), id)
                     before == Collection(storage)[index].exerciseHistory
                     after == Collection(storage')[index].exerciseHistory
                 IN  /\ Len(after) = Len(before) + 1
                     /\ SubSeq(after, 1, Len(before)) = before
                     /\ after[Len(after)].id = generateId(t1, r)
                     /\ \A k \in DOMAIN e : after[Len(after)][k] = e[k]
                     /\ DOMAIN after[Len(after)] = (DOMAIN e) \cup {"id"}
                     /\ ret' = Returned("addEntry", <<Collection(storage')[index]>>)
            ELSE /\ ret' = Returned("addEntry", <<>>)
                 /\ storage' = storage
      ]_vars

C7_Witness ==
    /\ ret.op = "addEntry"
    /\ Len(ret.val) = 1
    /\ Len(ret.val[1].exerciseHistory) = 2

\* Two characters are the same letter up to case.
SameLetter(a, b) ==
    \/ a = b
    \/ \E i \in 1..Len(Uppers) : {a, b} = {Uppers[i], Lowers[i]}

\* query occurs somewhere in name, letter case aside.
ContainsIgnoringCase(name, query) ==
    \E k \in 0..(Len(name) - Len(query)) :
        \A i \in 1..Len(query) : SameLetter(name[k + i], query[i])

\* The n-th smallest element of the set M of positions.
NthOf(M, n) == CHOOSE i \in M : Cardinality({j \in M : j < i}) = n - 1

\* C8: search returns the whole collection for an empty or blank query, and
\* otherwise exactly the records whose fullName contains the query, letter case
\* aside, in collection order.
C8_Search ==
    [][\A q \in Queries :
        (ret'.op = "search" /\ searchClients(q)) =>
            LET clients == Collection(storage)
                M == {i \in 1..Len(clients) : ContainsIgnoringCase(clients[i].fullName, q)}
            IN  /\ ~ret'.threw
                /\ IF \A i \in 1..Len(q) : q[i] \in Whitespace
                   THEN ret'.val = clients
                   ELSE /\ Len(ret'.val) = Cardinality(M)
                        /\ \A n \in 1..Len(ret'.val) : ret'.val[n] = clients[NthOf(M, n)]
      ]_vars

C8_Witness ==
    /\ ret.op = "search"
    /\ Len(ret.val) = 1
    /\ Len(Collection(storage)) = 2
    /\ Collection(storage)[2] = ret.val[1]

(***************************************************************************)
(* The claims about the validator.                                         *)
(***************************************************************************)
FieldNames == {"fullName", "age", "gender", "email", "phone", "goal", "startDate"}

\* The raw value of field k, <<>> when the form does not carry it.
RawOf(f, k) == IF k \in DOMAIN f THEN f[k] ELSE <<>>

\* The text s writes the integer n in decimal, whitespace around it aside.
WritesInteger(s, n) ==
    LET t == trim(s)
        digits == IF t # <<>> /\ t[1] \in {"+", "-"} THEN Tail(t) ELSE t
    IN  /\ digits # <<>>
        /\ \A i \in 1..Len(digits) : digitValue(digits[i], 10) >= 0
        /\ n = (IF t[1] = "-" THEN 0 - 1 ELSE 1) * numberOf(digits, Len(digits), 10)

\* local@domain.tld: one @, no whitespace, something before the @, and after
\* it a domain with a dot that is neither its first nor its last character.
LooksLikeEmail(s) ==
    LET ats == {i \in 1..Len(s) : s[i] = "@"}
        at == CHOOSE i \in ats : TRUE
    IN  /\ Cardinality(ats) = 1
        /\ \A i \in 1..Len(s) : s[i] \notin Whitespace
        /\ at > 1
        /\ \E i \in (at + 2)..(Len(s) - 1) : s[i] = "."

PhoneChars == {DecDigits[i] : i \in 1..Len(DecDigits)} \cup Whitespace \cup {"-", "(", ")", "+"}

\* The rule of field k, as the specification states it, holds of the form.
MeetsRule(f, k) ==
    CASE k = "fullName" -> Len(trim(RawOf(f, k))) >= 2
      [] k = "age" -> \E n \in 1..120 : WritesInteger(RawOf(f, k), n)
      [] k = "email" -> LooksLikeEmail(trim(RawOf(f, k)))
      [] k = "phone" ->
            /\ Len(trim(RawOf(f, k))) \in 7..20
            /\ \A i \in 1..Len(trim(RawOf(f, k))) : trim(RawOf(f, k))[i] \in PhoneChars
      [] OTHER -> RawOf(f, k) # <<>>

\* C9: the validator reports valid exactly when its error map is empty, and
\* the map has an entry for a field exactly when that field breaks its own
\* rule, whatever the other fields hold.
C9_Validator ==
    result.ran =>
        /\ result.isValid <=> (DOMAIN result.errors = {})
        /\ DOMAIN result.errors \subseteq FieldNames
        /\ \A k \in FieldNames : (k \in DOMAIN result.errors) <=> ~MeetsRule(form, k)

(***************************************************************************)
(* The claims about the suggestion service.                                *)
(***************************************************************************)
\* The fallback table the specification names for a goal.
TableOf(goal) ==
    CASE goal = "Weight Loss" -> WeightLoss
      [] goal = "Muscle Gain" -> MuscleGain
      [] OTHER -> GeneralFitness

\* The call ended with no pool: the fetch failed, the response was no
\* success, its body could not be used, or it had no named record.
EndedWithoutPool == sPc \in {"returned", "rejected"} /\ sPool = <<>>

\* C10: when the fetch fails, answers with a status that is no success, or
\* yields an empty pool, suggest(goal, 5) returns success:false, a non-empty
\* error string and exactly 5 entries, all of the fallback table of the goal
\* (the default table for a goal that has none).
C10_Fallback ==
    (EndedWithoutPool /\ sLimit = DefaultLimit) =>
        /\ sPc = "returned"
        /\ sOut.success = FALSE
        /\ sOut.error # ""
        /\ Len(sOut.exercises) = 5
        /\ \A i \in 1..Len(sOut.exercises) :
                \E j \in 1..Len(TableOf(sGoal)) : sOut.exercises[i] = TableOf(sGoal)[j]

\* The one-to-one maps of the positions 1..n into the positions 1..m.
Injections(n, m) ==
    {f \in [1..n -> 1..m] : \A i, j \in 1..n : i # j => f[i] # f[j]}

\* The call returned from its try block, with a pool of at least limit
\* exercises.
ReturnedFromPool == sPc = "returned" /\ sPool # <<>> /\ Len(sPool) >= sLimit

\* C11: with a normalised pool of at least limit exercises the call returns
\* success:true and exactly limit entries, which are the pool's elements at
\* limit pairwise different positions, whatever the shuffle drew.
C11_SubsetOfPool ==
    ReturnedFromPool =>
        /\ sOut.success = TRUE
        /\ Len(sOut.exercises) = sLimit
        /\ \E f \in Injections(sLimit, Len(sPool)) :
                \A i \in 1..sLimit : sOut.exercises[i] = sPool[f[i]]

\* A pool of three different exercises, limit 2, and the last exercise of
\* the pool returned first.
C11_Witness ==
    /\ ReturnedFromPool
    /\ Len(sPool) = 3
    /\ sPool[1] # sPool[2] /\ sPool[1] # sPool[3] /\ sPool[2] # sPool[3]
    /\ sLimit = 2
    /\ sOut.exercises[1] = sPool[3]

\* The promise of the call is fulfilled with an object that has an
\* exercises array.
ResultReturned == sPc = "returned" /\ "exercises" \in DOMAIN sOut

\* C12: every call whose request settles eventually returns a result object
\* with an exercises sequence, and no call ends with an exception handed to
\* its caller.
C12_AlwaysReturns ==
    /\ [](sPc # "rejected")
    /\ (sPc = "fetch") ~> ResultReturned

(***************************************************************************)
(* The claims about the persisted text.                                    *)
(***************************************************************************)
\* The value of an object's key.
Member(object, key) ==
    object.vals[CHOOSE j \in 1..Len(object.keys) : object.keys[j] = <<key>>]

\* C13: a collection of clients with nested exercise history that is saved
\* and then loaded comes back deep-equal to the collection saved.
C13_RoundTrip ==
    (loaded.ran /\ loaded.read) =>
        /\ ~loaded.threw
        /\ loaded.val = saved

\* Two clients were saved and loaded, the second one updated and with a
\* history entry that has tags.
C13_Witness ==
    /\ loaded.ran /\ loaded.read
    /\ Len(saved.items) = 2
    /\ Len(saved.items[2].keys) = Len(ClientKeys) + 1
    /\ Len(Member(saved.items[2], "exerciseHistory").items) = 1
    /\ Len(Member(Member(saved.items[2], "exerciseHistory").items[1], "tags").items) = 2
    /\ Member(loaded.val.items[2], "age") = JsNumber(1)

(***************************************************************************)
(* The claims about two tabs.                                              *)
(***************************************************************************)
\* rec is one of the records of the array.
Holds(clients, rec) == \E i \in 1..Len(clients) : clients[i] = rec

\* after is what the operation of tab w leaves when it runs to completion,
\* as a single writer, on the collection before (t: the clock it ended at).
RanAlone(w, before, after, t) ==
    IF tOp[w].op = "add"
    THEN /\ Len(after) = Len(before) + 1
         /\ SubSeq(after, 1, Len(before)) = before
         /\ DOMAIN after[Len(after)] = {"id", "fullName", "createdAt", "exerciseHistory"}
         /\ after[Len(after)].fullName = tOp[w].data.fullName
         /\ after[Len(after)].id \in Ids
    ELSE after = updateClientOf(saveClients(before), tOp[w].id, tOp[w].data, t).clients

\* The record the operation of tab w put into the array after.
Written(w, after) ==
    IF tOp[w].op = "add" THEN after[Len(after)]
    ELSE after[findIndex(tCopy[w], tOp[w].id)]

\* C14: when a tab saves after another tab saved since it read, the slot
\* holds the result of its operation on the collection it read and of nothing
\* else: a record the other tab saved in between is there only if the tab
\* had read it or wrote the same record itself.  When no other tab saved in
\* between, the slot holds the result of the operation on the collection
\* persisted before it.
C14_LastWriteWins ==
    [][\A w \in Tabs :
        (tPc[w] = "read" /\ tPc'[w] = "idle") =>
            IF tMissed[w] = {}
            THEN RanAlone(w, Collection(storage), Collection(storage'), now')
            ELSE /\ RanAlone(w, tCopy[w], Collection(storage'), now')
                 /\ \A rec \in tMissed[w] :
                        Holds(Collection(storage'), rec) =>
                            \/ Holds(tCopy[w], rec)
                            \/ rec = Written(w, Collection(storage'))]_vars

\* Tab 2 saved an array of one client after another tab had saved a client
\* since it read, and that client is gone from the slot.
C14_Witness ==
    /\ tPc = [w \in Tabs |-> "idle"]
    /\ tMissed[1] = {}
    /\ Cardinality(tMissed[2]) = 1
    /\ Len(Collection(storage)) = 1
    /\ \A rec \in tMissed[2] :
            /\ ~Holds(Collection(storage), rec)
            /\ rec.fullName # Collection(storage)[1].fullName

(***************************************************************************)
(* The claims about the page load.                                         *)
(***************************************************************************)
\* C15: a page load leaves a persisted collection that is not empty as it
\* is: sample data is written only over an empty collection, and the clients
\* added before the load are there after it.
C15_LoadKeepsData ==
    [][(ret'.op = "pageLoad" /\ ~getClients(storage).threw
            /\ Len(Collection(storage)) > 0)
        => storage' = storage]_vars

(***************************************************************************)
(* The frame of the repository operations.                                 *)
(***************************************************************************)
\* The arrays have the same length and the same records in the same places,
\* the place index aside.
SameButAt(before, after, index) ==
    /\ Len(after) = Len(before)
    /\ \A i \in 1..Len(before) : i # index => after[i] = before[i]

\* C16: add puts the new record at the end and leaves every record that was
\* there as it was, one more record in all; update and addHistoryEntry leave
\* the number of records, their order and every record but the targeted one
\* (the first of that id) as they were.
C16_Frame ==
    [][/\ \A f \in AddMaps, t1 \in Times, r \in Suffixes, t2 \in Times :
            (ret'.op = "add" /\ addClient(f, t1, r, t2)) =>
                /\ Len(Collection(storage')) = Len(Collection(storage)) + 1
                /\ SubSeq(Collection(storage'), 1, Len(Collection(storage)))
                        = Collection(storage)
                /\ ret'.val = <<Collection(storage')[Len(Collection(storage'))]>>
       /\ \A id \in Ids, f \in UpdMaps, t \in Times :
            (ret'.op = "update" /\ updateClient(id, f, t)) =>
                SameButAt(Collection(storage), Collection(storage'),
                          findIndex(Collection(storage), id))
       /\ \A id \in Ids, e \in EntryMaps, t1 \in Times, r \in Suffixes, t2 \in Times :
            (ret'.op = "addEntry" /\ addExerciseEntry(id, e, t1, r, t2)) =>
                SameButAt(Collection(storage), Collection(storage'),
                          findIndex(Collection(storage), id))
      ]_vars

\* An update of the second of two records: the first is not the record the
\* update returned.
C16_Witness ==
    /\ ret.op = "update"
    /\ Len(ret.val) = 1
    /\ Len(Collection(storage)) = 2
    /\ Collection(storage)[2] = ret.val[1]
    /\ Collection(storage)[1] # ret.val[1]
====
